---- MODULE Spec2Model ----
(***************************************************************************)
(* Model of the dataset cleaning pipeline of the toeasy client:            *)
(*   App            (activeDataset, usage, handleDataLoaded, routing)      *)
(*   UploadView     (deferred loads: FileReader.onload / setTimeout;       *)
(*                   parseCSV and the profiler of handleDataLoaded)        *)
(*   CleanView      (audit effect, apply, smart clean, commit)             *)
(*   PlaygroundView (query execution and chart suggestion, both versions)  *)
(*   GeminiService  (callWithRetry, auditDataset, autoCleanDataset,        *)
(*                   suggestValidationRules, executeNaturalLanguageQuery,  *)
(*                   executeRawSQL, suggestChartForResults)                *)
(* JavaScript runs the handlers on one thread; an async handler is         *)
(* suspended at each await, so every in-flight handler invocation is a     *)
(* record in reqs and each step below runs from one await to the next.     *)
(***************************************************************************)
EXTENDS Integers, Sequences, FiniteSets, TLC

\* ---------------------------------------------------------------- bounds
\* rows of the large source beyond rowLimit
TailLen == 2
\* rows of the small source
SmallLen == 2
\* async handler invocations in flight at once
MaxInflight == 2
\* Gateway invocations issued in one run (caps usage.aiQueriesUsed)
MaxAICalls == 3
\* datasets delivered to handleDataLoaded in one run (caps usage.rowsProcessed)
MaxLoads == 2
\* commits in one run (caps the lastCleaned clock)
MaxCommits == 1
\* size of the pool the random action ids are drawn from
NumIds == 2
\* largest maxRetries argument callWithRetry is run with on its own
MaxRetriesArg == 4
\* lines of a file handed to parseCSV
MaxLines == 4

\* ------------------------------------------------------ program constants
maxRetries == 2
initialDelay == 1000
rowLimit == 200
auditSample == 30
querySample == 50
chartThreshold == 50
InitRowsProcessed == 12450
InitAiQueriesUsed == 84
InitConnectorsCount == 3

\* ------------------------------------------------------------- JS values
JsNum(n) == [t |-> "number", n |-> n, s |-> ""]
JsStr(s) == [t |-> "string", n |-> 0, s |-> s]

Min(a, b) == IF a < b THEN a ELSE b

\* the outcome of one run of a function: it threw e, or it returned v
Threw(e) == [threw |-> TRUE, err |-> e, value |-> <<>>]
Returned(v) == [threw |-> FALSE, err |-> "", value |-> v]

\* Array.prototype.slice(from) / slice(0, to) on a 1-based sequence
SliceTo(arr, to) == SubSeq(arr, 1, Min(to, Len(arr)))
SliceFrom(arr, from) == SubSeq(arr, from + 1, Len(arr))

\* Object.keys(row): the row's keys, in the order the parser inserts them
\* (integer-like keys first, in ascending order, then the other keys in
\* insertion order; the keys of the rows modelled are listed in an order that
\* agrees with it for every row)
HeaderOrder == <<"1", "2", "a", "", "b", "x", "y", "x,y", "z">>
ObjectKeys(row) == SelectSeq(HeaderOrder, LAMBDA h : h \in DOMAIN row)

\* ----------------------------------------------------------- the sources
\* what UploadView hands to onDataLoaded: (data, name)
MkRow(i, tag) == [a |-> JsNum(i), b |-> JsStr(tag)]
BigData == [i \in 1..(rowLimit + TailLen) |-> MkRow(i, "x")]
SmallData == [i \in 1..SmallLen |-> MkRow(i, "y")]
Sources == { [name |-> "A.csv", data |-> BigData],
             [name |-> "B.csv", data |-> SmallData] }

\* ------------------------------------------------------------- profiler
\* a profiler that counts the empty string as a value
NonMissing_KeepsEmptyString(data, header) ==
    SelectSeq([i \in 1..Len(data) |-> IF header \in DOMAIN data[i] THEN data[i][header] ELSE [t |-> "undefined", n |-> 0, s |-> ""]],
              LAMBDA v : ~(v.t \in {"null", "undefined"}))

NonMissing(data, header) ==
    SelectSeq([i \in 1..Len(data) |-> IF header \in DOMAIN data[i] THEN data[i][header] ELSE [t |-> "undefined", n |-> 0, s |-> ""]],
              LAMBDA v : ~(v.t \in {"null", "undefined"}) /\ ~(v.t = "string" /\ v.s = ""))

\* !isNaN(Number(v)): numbers other than NaN, and the strings Number() parses
NumericStrings == {"0", "1", "2", " 1 "}
ParsesAsNumber(v) == \/ v.t = "number"
                     \/ v.t = "string" /\ v.s \in NumericStrings

\* a profiler for which one numeric value makes the column numeric
ColumnStatsOf_SomeNumeric(data, header) ==
    LET values == NonMissing(data, header)
        isNumeric == \E k \in 1..Len(values) :
                        values[k].t # "boolean" /\ ParsesAsNumber(values[k])
    IN [column |-> header,
        type |-> IF isNumeric THEN "numeric" ELSE "categorical",
        uniqueValues |-> Cardinality({values[k] : k \in 1..Len(values)}),
        missingValues |-> Len(data) - Len(values)]

ColumnStatsOf(data, header) ==
    LET values == NonMissing(data, header)
        isNumeric == \A k \in 1..Len(values) :
                        values[k].t # "boolean" /\ ParsesAsNumber(values[k])
    IN [column |-> header,
        type |-> IF isNumeric THEN "numeric" ELSE "categorical",
        uniqueValues |-> Cardinality({values[k] : k \in 1..Len(values)}),
        missingValues |-> Len(data) - Len(values)]

\* -------------------------------------------------------------- parseCSV
\* A text is a sequence of characters, each a string of length one.
Digits == {"1", "2"}
DigitValue(c) == IF c = "1" THEN 1 ELSE 2
Undefined == [t |-> "undefined", n |-> 0, s |-> ""]

\* the string a sequence of characters spells
RECURSIVE Str(_)
Str(cs) == IF cs = <<>> THEN "" ELSE Head(cs) \o Str(Tail(cs))

\* String.prototype.trim, for the one whitespace character of the texts
RECURSIVE TrimStart(_)
TrimStart(cs) == IF cs # <<>> /\ Head(cs) = " " THEN TrimStart(Tail(cs)) ELSE cs
RECURSIVE TrimEnd(_)
TrimEnd(cs) ==
    IF cs # <<>> /\ cs[Len(cs)] = " " THEN TrimEnd(SubSeq(cs, 1, Len(cs) - 1)) ELSE cs
Trim(cs) == TrimEnd(TrimStart(cs))

\* text.split(/\r?\n/) (the texts hold no carriage return)
RECURSIVE SplitLines(_)
SplitLines(text) ==
    IF \A i \in DOMAIN text : text[i] # "\n" THEN <<text>>
    ELSE LET i == CHOOSE j \in DOMAIN text :
                     text[j] = "\n" /\ \A h \in 1..(j - 1) : text[h] # "\n"
         IN <<SubSeq(text, 1, i - 1)>> \o SplitLines(SubSeq(text, i + 1, Len(text)))

\* v.replace(/^"|"$/g, '')
StripQuotes(cs) ==
    LET a == IF cs # <<>> /\ Head(cs) = "\"" THEN Tail(cs) ELSE cs
    IN IF a # <<>> /\ a[Len(a)] = "\"" THEN SubSeq(a, 1, Len(a) - 1) ELSE a

\* the loop of parseLine from character i on
RECURSIVE ParseLineFrom(_, _, _, _, _)
ParseLineFrom(line, i, current, inQuotes, result) ==
    IF i > Len(line) THEN Append(result, Trim(current))
    ELSE IF line[i] = "\"" THEN ParseLineFrom(line, i + 1, current, ~inQuotes, result)
    ELSE IF line[i] = "," /\ ~inQuotes
         THEN ParseLineFrom(line, i + 1, <<>>, inQuotes, Append(result, Trim(current)))
    ELSE ParseLineFrom(line, i + 1, Append(current, line[i]), inQuotes, result)
ParseLine(line) ==
    LET result == ParseLineFrom(line, 1, <<>>, FALSE, <<>>)
    IN [k \in DOMAIN result |-> StripQuotes(result[k])]

\* !isNaN(Number(val)) for a cell of the texts modelled: Number('') is 0, a
\* string of digits is its value, every other cell is NaN
CellIsNumber(cs) == \A k \in DOMAIN cs : cs[k] \in Digits
RECURSIVE NumberOf(_)
NumberOf(cs) ==
    IF cs = <<>> THEN 0
    ELSE 10 * NumberOf(SubSeq(cs, 1, Len(cs) - 1)) + DigitValue(cs[Len(cs)])

\* isNaN(Number(val)) || val === '' ? val : Number(val), val = values[i]
CellValue(values, i) ==
    IF i > Len(values) THEN Undefined
    ELSE IF ~CellIsNumber(values[i]) \/ values[i] = <<>> THEN JsStr(Str(values[i]))
    ELSE JsNum(NumberOf(values[i]))

\* headers.forEach((header, i) => obj[header] = ...): a header that occurs
\* twice keeps the value of its last occurrence
RowOf(headers, values) ==
    [h \in { Str(headers[i]) : i \in DOMAIN headers } |->
        LET i == CHOOSE j \in DOMAIN headers :
                     /\ Str(headers[j]) = h
                     /\ \A g \in DOMAIN headers : Str(headers[g]) = h => g <= j
        IN CellValue(values, i)]

\* parseCSV; it has no throw statement
ParseCSV(text) ==
    LET lines == SelectSeq(SplitLines(text), LAMBDA line : Trim(line) # <<>>)
    IN IF Len(lines) = 0 THEN Returned(<<>>)
       ELSE LET headers == ParseLine(lines[1])
            IN Returned([k \in 1..(Len(lines) - 1) |-> RowOf(headers, ParseLine(lines[k + 1]))])

\* (originalData, a copy of data that nothing reads, is left out)
NoDataset == [name |-> "", headers |-> <<>>, data |-> <<>>, stats |-> <<>>,
              lastCleaned |-> 0]

MkDataset(data, name) ==
    LET headers == ObjectKeys(data[1])
    IN [name |-> name, headers |-> headers, data |-> data,
        stats |-> [k \in 1..Len(headers) |-> ColumnStatsOf(data, headers[k])],
        lastCleaned |-> 0]

VARIABLES
    view,            \* the route shown: "upload" or "clean"
    activeDataset,   \* App state; NoDataset is null
    usage,           \* App state
    pendingLoad,     \* sources read by UploadView whose callback has not run yet
    loading, pendingActions, insights, validationRules,
    isProcessing, previewData, hasChanges,          \* CleanView state
    reqs,            \* async handler invocations suspended at an await
    clock,           \* the value new Date() returns next
    last,            \* the step taken last
    playground,      \* PlaygroundView state: results, chartConfig, loading, error
    rt,              \* one run of callWithRetry taken on its own
    ing              \* one file read by handleFile taken on its own

appVars == <<activeDataset, usage>>
cleanVars == <<loading, pendingActions, insights, validationRules,
               isProcessing, previewData, hasChanges>>
vars == <<view, activeDataset, usage, pendingLoad, loading, pendingActions, insights,
          validationRules, isProcessing, previewData, hasChanges, reqs, clock, last, playground, rt, ing>>


\* ------------------------------------------------- the reasoning service
\* One call of ai.models.generateContent either throws or returns a response
\* whose text is missing (undefined or ''), is not JSON, or is JSON.
ErrorKinds == {"rateLimit", "auth"}
ThrowReplies == { [type |-> "throw", err |-> e, text |-> "", value |-> <<>>] : e \in ErrorKinds }
TextReplies(values) ==
    { [type |-> "text", err |-> "", text |-> "missing", value |-> <<>>],
      [type |-> "text", err |-> "", text |-> "nonjson", value |-> <<>>] }
    \cup { [type |-> "text", err |-> "", text |-> "json", value |-> v] : v \in values }
NoReply == [type |-> "none", err |-> "", text |-> "", value |-> <<>>]

\* the action and insight objects the service writes into its audit answer
SvcAction(n) == [id |-> <<"svc", n>>, type |-> "formatting", status |-> "done",
                 suggestion |-> <<"fix", n>>]
SvcInsight == [title |-> "quality", importance |-> "high"]
AuditValues == { [actions |-> <<>>, insights |-> <<>>],
                 [actions |-> <<SvcAction(1), SvcAction(2)>>, insights |-> <<SvcInsight>>] }

\* the arrays the service answers a clean request with, given the rows sent
FixRow(row) == [row EXCEPT !.b = JsStr("clean")]
\* a row the service has given a field that is not a column of the dataset
AddKey(row) == [k \in DOMAIN row \cup {"z"} |-> IF k = "z" THEN JsNum(0) ELSE row[k]]
CleanValues(sent) ==
    { [i \in 1..Len(sent) |-> FixRow(sent[i])],           \* same number of rows
      SubSeq(sent, 2, Len(sent)),                           \* a row removed
      [i \in 1..Len(sent) |-> IF i = 1 THEN AddKey(sent[i]) ELSE sent[i]] }  \* a new field

RuleValues == { <<[column |-> "a", type |-> "required", severity |-> "error"]>> }

\* the arrays the service answers a query with, given the sample sent: no row,
\* one row, or one row more than the sample holds
QueryValues(sent) ==
    { <<>>, SliceTo(sent, 1), sent \o SliceTo(sent, 1) }

\* the chart suggestion of the service: the JSON null, or a ChartSpec
NoChart == [type |-> "null", title |-> "", xAxis |-> "", yAxis |-> ""]
ChartValues == { NoChart, [type |-> "bar", title |-> "t", xAxis |-> "a", yAxis |-> "b"] }

\* Math.random().toString(36).substr(2, 9)
IdPool == { <<"id", k>> : k \in 1..NumIds }
SmartCleanId == <<"smart-clean", 0>>

\* ---------------------------------------------------------- GeminiService
RECURSIVE Pow2(_)
Pow2(i) == IF i = 0 THEN 1 ELSE 2 * Pow2(i - 1)

\* a catch block whose delay grows by initialDelay per attempt instead of doubling
CallWithRetryCatch_LinearDelay(i, err, n, d) ==
    IF i < n - 1
    THEN [retry |-> TRUE, delay |-> d * (i + 1)]
    ELSE [retry |-> FALSE, delay |-> 0]

\* a catch block that also waits after the last attempt before giving up
CallWithRetryCatch_WaitsAfterLast(i, err, n, d) ==
    IF i < n
    THEN [retry |-> TRUE, delay |-> d * Pow2(i)]
    ELSE [retry |-> FALSE, delay |-> 0]

\* the catch block of callWithRetry(fn, n, d) in attempt i: wait and go on, or
\* throw; the error caught is not looked at
CallWithRetryCatch(i, err, n, d) ==
    IF i < n - 1
    THEN [retry |-> TRUE, delay |-> d * Pow2(i)]
    ELSE [retry |-> FALSE, delay |-> 0]

\* the catch block with the default arguments, which every caller uses
RetryDecision(i, err) == CallWithRetryCatch(i, err, maxRetries, initialDelay)

\* an auditDataset that keeps the status the service wrote
AuditFn_KeepsStatus(reply, ids) ==
    IF reply.type = "throw" THEN Threw(reply.err)
    ELSE IF reply.text = "nonjson" THEN Threw("SyntaxError")
    ELSE LET parsed == IF reply.text = "missing"
                       THEN [actions |-> <<>>, insights |-> <<>>]
                       ELSE reply.value
         IN Returned([actions |-> [k \in 1..Len(parsed.actions) |->
                                     [parsed.actions[k] EXCEPT !.id = ids[k]]],
                      insights |-> parsed.insights])

\* auditDataset's function: parse, then force status and draw a random id
AuditFn(reply, ids) ==
    IF reply.type = "throw" THEN Threw(reply.err)
    ELSE IF reply.text = "nonjson" THEN Threw("SyntaxError")
    ELSE LET parsed == IF reply.text = "missing"
                       THEN [actions |-> <<>>, insights |-> <<>>]
                       ELSE reply.value
         IN Returned([actions |-> [k \in 1..Len(parsed.actions) |->
                                     [parsed.actions[k] EXCEPT !.status = "pending",
                                                               !.id = ids[k]]],
                      insights |-> parsed.insights])

\* autoCleanDataset appending data.slice(rowLimit + 1): the first row beyond the
\* window is lost
AutoCleanFn_SkipsFirstTailRow(data, reply) ==
    IF reply.type = "throw" THEN Threw(reply.err)
    ELSE IF reply.text = "nonjson" THEN Threw("SyntaxError")
    ELSE LET cleaned == IF reply.text = "missing" THEN <<>> ELSE reply.value
         IN Returned(IF Len(data) > rowLimit
                     THEN cleaned \o SliceFrom(data, rowLimit + 1)
                     ELSE cleaned)

\* autoCleanDataset returning the cleaned window alone
AutoCleanFn_DropsTail(data, reply) ==
    IF reply.type = "throw" THEN Threw(reply.err)
    ELSE IF reply.text = "nonjson" THEN Threw("SyntaxError")
    ELSE Returned(IF reply.text = "missing" THEN <<>> ELSE reply.value)

\* autoCleanDataset's function: clean the first rowLimit rows, append the rest
AutoCleanFn(data, reply) ==
    IF reply.type = "throw" THEN Threw(reply.err)
    ELSE IF reply.text = "nonjson" THEN Threw("SyntaxError")
    ELSE LET cleaned == IF reply.text = "missing" THEN <<>> ELSE reply.value
         IN Returned(IF Len(data) > rowLimit
                     THEN cleaned \o SliceFrom(data, rowLimit)
                     ELSE cleaned)

\* suggestValidationRules, which does not go through callWithRetry
RulesFn(reply) ==
    IF reply.type = "throw" THEN Threw(reply.err)
    ELSE IF reply.text = "nonjson" THEN Threw("SyntaxError")
    ELSE Returned(IF reply.text = "missing" THEN <<>> ELSE reply.value)

\* the function of executeNaturalLanguageQuery and of executeRawSQL, which
\* differ in the prompt only: JSON.parse(response.text || '[]')
QueryFn(reply) ==
    IF reply.type = "throw" THEN Threw(reply.err)
    ELSE IF reply.text = "nonjson" THEN Threw("SyntaxError")
    ELSE Returned(IF reply.text = "missing" THEN <<>> ELSE reply.value)

\* suggestChartForResults returns null for no rows without calling the service
SuggestChartCalls(data) == Len(data) # 0
\* its function: JSON.parse(response.text || 'null')
ChartFn(reply) ==
    IF reply.type = "throw" THEN Threw(reply.err)
    ELSE IF reply.text = "nonjson" THEN Threw("SyntaxError")
    ELSE Returned(IF reply.text = "missing" THEN NoChart ELSE reply.value)

\* the rows each operation puts into its prompt
AuditSample(data) == SliceTo(data, auditSample)
\* an autoCleanDataset that sends the whole working copy
DataToClean_WholeCopy(data) == data
DataToClean(data) == SliceTo(data, rowLimit)
QuerySample(data) == SliceTo(data, querySample)
\* suggestChartForResults sends data[0]
ChartSample(data) == SliceTo(data, 1)

\* ------------------------------------------------- in-flight invocations
\* kind: the handler (runAudit, handleApplyAction, handleSmartClean, and the
\* query handler of PlaygroundView in its two versions, execute and
\* handleFetch, before and after setResults); dsName and
\* data: the dataset of the render whose closure the handler runs in; phase and
\* i: where callWithRetry stands; delays: the setTimeout delays it has waited.
\* (lastError of callWithRetry is read only after the loop, which the throw in
\* its last iteration never lets it reach, and is left out.)
NoReq == [kind |-> "none", dsName |-> "", data |-> <<>>, actionId |-> <<"", 0>>,
          phase |-> "", i |-> 0, delays |-> <<>>]
NewReq(kind, ds, data, actionId) ==
    [kind |-> kind, dsName |-> ds.name, data |-> data, actionId |-> actionId,
     phase |-> "calling", i |-> 0, delays |-> <<>>]

RemoveAt(seq, k) == SubSeq(seq, 1, k - 1) \o SubSeq(seq, k + 1, Len(seq))
\* the step taken last: the handler it belongs to and what the service answered
Event(op, r, reply, out) ==
    [op |-> op, kind |-> r.kind, dsName |-> r.dsName, actionId |-> r.actionId,
     i |-> r.i, delays |-> r.delays,
     rows |-> Len(r.data), tail |-> SliceFrom(r.data, rowLimit),
     reply |-> [type |-> reply.type, text |-> reply.text, err |-> reply.err],
     threw |-> out.threw, err |-> out.err,
     returned |-> IF reply.type = "text" /\ reply.text = "json"
                     /\ r.kind \in {"apply", "smart", "execute", "handleFetch"}
                  THEN Len(reply.value) ELSE 0]
Plain(op) == Event(op, NoReq, NoReply, Returned(<<>>))
Launch(r) == Event("launch", r, NoReply, Returned(<<>>))

CanLaunch == /\ Len(reqs) < MaxInflight
             /\ usage.aiQueriesUsed < InitAiQueriesUsed + MaxAICalls

\* --------------------------------------------------------------- CleanView
\* onAIAction = App.trackAIUsage
TrackAIUsage(u) == [u EXCEPT !.aiQueriesUsed = @ + 1]

\* the state a CleanView instance has after its first render and its effects:
\* useState initial values, previewData := dataset.data, loading := true
MountClean(ds) ==
    /\ loading' = TRUE
    /\ pendingActions' = <<>>
    /\ insights' = <<>>
    /\ validationRules' = <<>>
    /\ isProcessing' = FALSE
    /\ previewData' = ds.data
    /\ hasChanges' = FALSE

\* no CleanView instance exists: the variables rest at their initial values
UnmountClean ==
    /\ loading' = TRUE
    /\ pendingActions' = <<>>
    /\ insights' = <<>>
    /\ validationRules' = <<>>
    /\ isProcessing' = FALSE
    /\ previewData' = <<>>
    /\ hasChanges' = FALSE

\* ---------------------------------------------------------- PlaygroundView
\* useState initial values; also the rest value while no instance is mounted
NoPlayground == [results |-> <<>>, chartConfig |-> NoChart, loading |-> FALSE,
                 error |-> "null"]
QueryKinds == {"execute", "handleFetch"}
ChartKinds == {"executeChart", "handleFetchChart"}
IsQuery(r) == r.kind \in QueryKinds
IsChart(r) == r.kind \in ChartKinds

\* the test the handler makes after setResults(data) before it asks for a chart
ExecuteWantsChart(data) == Len(data) > 0 /\ Len(data) <= chartThreshold
HandleFetchWantsChart(data) == Len(data) > 0
WantsChart(kind, data) ==
    IF kind = "execute" THEN ExecuteWantsChart(data) ELSE HandleFetchWantsChart(data)

\* an apply that marks every action of the queue
MarkApplied_MarksAll(actions, id) ==
    [k \in 1..Len(actions) |-> [actions[k] EXCEPT !.status = "applied"]]

MarkApplied(actions, id) ==
    [k \in 1..Len(actions) |->
        IF actions[k].id = id THEN [actions[k] EXCEPT !.status = "applied"] ELSE actions[k]]
MarkAllApplied(actions) ==
    [k \in 1..Len(actions) |-> [actions[k] EXCEPT !.status = "applied"]]

\* rules.map((r, i) => ({ ...r, id: `r-${i}`, active: true }))
MkRules(rules) ==
    [k \in 1..Len(rules) |->
        [column |-> rules[k].column, type |-> rules[k].type, severity |-> rules[k].severity,
         id |-> <<"r", k - 1>>, active |-> TRUE]]

\* ------------------------------------------------------------------ Init
\* no file is being read
IngIdle == [phase |-> "idle", text |-> <<>>, parsed |-> Returned(<<>>)]

\* callWithRetry is not running
RtIdle == [n |-> 0, d |-> 0, i |-> 0, phase |-> "idle", attempts |-> 0,
           errs |-> <<>>, delays |-> <<>>, thrown |-> ""]

AppInit ==
    /\ view = "upload"
    /\ activeDataset = NoDataset
    /\ usage = [rowsProcessed |-> InitRowsProcessed, aiQueriesUsed |-> InitAiQueriesUsed,
                connectorsCount |-> InitConnectorsCount]
    /\ pendingLoad = {}
    /\ loading = TRUE
    /\ pendingActions = <<>>
    /\ insights = <<>>
    /\ validationRules = <<>>
    /\ isProcessing = FALSE
    /\ previewData = <<>>
    /\ hasChanges = FALSE
    /\ reqs = <<>>
    /\ clock = 1
    /\ last = Plain("init")

Init ==
    /\ AppInit
    /\ playground = NoPlayground
    /\ rt = RtIdle
    /\ ing = IngIdle

\* ------------------------------------------------------------- UploadView
\* handleFile / handleSampleData: the source is read, onDataLoaded runs later
StartLoad(src) ==
    /\ view = "upload"
    /\ src \notin pendingLoad
    /\ (usage.connectorsCount - InitConnectorsCount) + Cardinality(pendingLoad) < MaxLoads
    /\ pendingLoad' = pendingLoad \cup {src}
    /\ last' = Plain("startLoad")
    /\ UNCHANGED <<view, activeDataset, usage, reqs, clock>>
    /\ UNCHANGED cleanVars
    /\ UNCHANGED <<playground, rt, ing>>

\* -------------------------------------------------------------------- App
\* a Sidebar link: leaving a view unmounts it, entering /clean or /playground
\* mounts a new instance, and the effects of CleanView run (the audit effect
\* starts runAudit). The handlers of an unmounted instance only call its
\* setState functions from then on, which React ignores: they are dropped
\* from reqs.
Navigate(to) ==
    /\ to # view
    /\ \/ /\ to = "upload"
          /\ UnmountClean
          /\ reqs' = <<>>
          /\ usage' = usage
          /\ last' = Plain("navigate")
       \/ /\ to = "playground"
          /\ activeDataset # NoDataset
          /\ UnmountClean
          /\ reqs' = <<>>
          /\ usage' = usage
          /\ last' = Plain("navigate")
       \/ /\ to = "clean"
          /\ activeDataset # NoDataset
          /\ CanLaunch
          /\ MountClean(activeDataset)
          /\ usage' = TrackAIUsage(usage)
          /\ LET r == NewReq("audit", activeDataset, activeDataset.data, <<"", 0>>)
             IN /\ reqs' = <<r>>
                /\ last' = Launch(r)
    /\ view' = to
    /\ playground' = NoPlayground
    /\ UNCHANGED <<activeDataset, pendingLoad, clock>>
    /\ UNCHANGED <<rt, ing>>

\* handleDataLoaded(data, name), called back by UploadView; navigate('/clean')
\* mounts CleanView, or re-renders the mounted one with the new dataset: the
\* [dataset.data] effect runs, and the [dataset.name] effect when the name changed
DataLoaded(data, name) ==
    /\ Len(data) # 0
    /\ LET ds == MkDataset(data, name)
           audits == view # "clean" \/ ds.name # activeDataset.name
           r == NewReq("audit", ds, ds.data, <<"", 0>>)
           u == [usage EXCEPT !.rowsProcessed = @ + Len(data),
                              !.connectorsCount = @ + 1]
       IN /\ audits => CanLaunch
          /\ activeDataset' = ds
          /\ usage' = IF audits THEN TrackAIUsage(u) ELSE u
          /\ IF view # "clean"
             THEN MountClean(ds)
             ELSE /\ previewData' = ds.data
                  /\ hasChanges' = FALSE
                  /\ loading' = (audits \/ loading)
                  /\ UNCHANGED <<pendingActions, insights, validationRules, isProcessing>>
          /\ reqs' = IF audits THEN Append(IF view = "clean" THEN reqs ELSE <<>>, r)
                               ELSE reqs
          /\ playground' = NoPlayground
          /\ last' = Event("dataLoaded", IF audits THEN r ELSE NoReq, NoReply, Returned(<<>>))
    /\ view' = "clean"
    /\ UNCHANGED clock
    /\ UNCHANGED rt

\* the deferred callback of UploadView calls onDataLoaded(data, name)
HandleDataLoaded(src) ==
    /\ src \in pendingLoad
    /\ DataLoaded(src.data, src.name)
    /\ pendingLoad' = pendingLoad \ {src}
    /\ UNCHANGED ing

\* ------------------------------------------------- CleanView: user events
\* the Apply button of a pending action; shown when the audit list is rendered
HandleApplyAction(k) ==
    /\ view = "clean"
    /\ ~loading
    /\ k \in 1..Len(pendingActions)
    /\ pendingActions[k].status = "pending"
    /\ CanLaunch
    /\ isProcessing' = TRUE
    /\ usage' = TrackAIUsage(usage)
    /\ LET r == NewReq("apply", activeDataset, previewData, pendingActions[k].id)
       IN /\ reqs' = Append(reqs, r)
          /\ last' = Launch(r)
    /\ UNCHANGED <<view, activeDataset, pendingLoad, clock, loading, pendingActions,
                   insights, validationRules, previewData, hasChanges>>
    /\ UNCHANGED <<playground, rt, ing>>

\* the Smart Clean button, disabled while isProcessing
HandleSmartClean ==
    /\ view = "clean"
    /\ ~isProcessing
    /\ CanLaunch
    /\ isProcessing' = TRUE
    /\ usage' = TrackAIUsage(usage)
    /\ LET r == NewReq("smart", activeDataset, previewData, SmartCleanId)
       IN /\ reqs' = Append(reqs, r)
          /\ last' = Launch(r)
    /\ UNCHANGED <<view, activeDataset, pendingLoad, clock, loading, pendingActions,
                   insights, validationRules, previewData, hasChanges>>
    /\ UNCHANGED <<playground, rt, ing>>

\* a Commit button that is rendered whether or not hasChanges is set
HandleCommit_Ungated ==
    /\ view = "clean"
    /\ clock <= MaxCommits
    /\ activeDataset' = [activeDataset EXCEPT !.data = previewData, !.lastCleaned = clock]
    /\ clock' = clock + 1
    /\ previewData' = activeDataset'.data
    /\ hasChanges' = FALSE
    /\ last' = Plain("commit")
    /\ UNCHANGED <<view, usage, pendingLoad, reqs, loading, pendingActions, insights,
                   validationRules, isProcessing>>
    /\ UNCHANGED <<playground, rt, ing>>

\* the Commit button, rendered when hasChanges; onUpdate = handleUpdateDataset,
\* after which the [dataset.data] effect runs
HandleCommit ==
    /\ view = "clean"
    /\ hasChanges
    /\ clock <= MaxCommits
    /\ activeDataset' = [activeDataset EXCEPT !.data = previewData, !.lastCleaned = clock]
    /\ clock' = clock + 1
    /\ previewData' = activeDataset'.data
    /\ hasChanges' = FALSE
    /\ last' = Plain("commit")
    /\ UNCHANGED <<view, usage, pendingLoad, reqs, loading, pendingActions, insights,
                   validationRules, isProcessing>>
    /\ UNCHANGED <<playground, rt, ing>>

\* ------------------------------------------ the handlers after their await
IsClean(r) == r.kind \in {"apply", "smart"}

RepliesFor(r) ==
    ThrowReplies \cup TextReplies(IF r.kind = "audit" THEN AuditValues
                                  ELSE IF IsQuery(r) THEN QueryValues(QuerySample(r.data))
                                  ELSE IF IsChart(r) THEN ChartValues
                                  ELSE CleanValues(DataToClean(r.data)))

\* one run of the function the request passed to callWithRetry
FnOutcome(r, reply, ids) ==
    IF r.kind = "audit" THEN AuditFn(reply, ids)
    ELSE IF IsQuery(r) THEN QueryFn(reply)
    ELSE IF IsChart(r) THEN ChartFn(reply)
    ELSE AutoCleanFn(r.data, reply)

\* the ids Math.random() yields for the actions of an audit answer
IdChoices(r, reply) ==
    IF r.kind = "audit" /\ reply.type = "text" /\ reply.text = "json"
    THEN [1..Len(reply.value.actions) -> IdPool]
    ELSE {<<>>}

\* runAudit after auditDataset resolved: lines 33-34
AuditResolvedEffect(r, result) ==
    /\ pendingActions' = result.actions
    /\ insights' = result.insights
    /\ UNCHANGED <<loading, validationRules, isProcessing, previewData, hasChanges>>

\* runAudit's catch and finally
AuditRejectedEffect(r) ==
    /\ loading' = FALSE
    /\ UNCHANGED <<pendingActions, insights, validationRules, isProcessing,
                   previewData, hasChanges>>

\* runAudit after suggestValidationRules resolved, and its finally
RulesResolvedEffect(r, rules) ==
    /\ validationRules' = MkRules(rules)
    /\ loading' = FALSE
    /\ UNCHANGED <<pendingActions, insights, isProcessing, previewData, hasChanges>>

\* a clean handler that replaces the working copy without setHasChanges(true)
CleanResolvedEffect_NoFlag(r, cleaned) ==
    /\ previewData' = cleaned
    /\ pendingActions' = IF r.kind = "smart"
                         THEN MarkAllApplied(pendingActions)
                         ELSE MarkApplied(pendingActions, r.actionId)
    /\ isProcessing' = FALSE
    /\ UNCHANGED <<loading, insights, validationRules, hasChanges>>

\* handleApplyAction / handleSmartClean after autoCleanDataset resolved, and finally
CleanResolvedEffect(r, cleaned) ==
    /\ previewData' = cleaned
    /\ pendingActions' = IF r.kind = "smart"
                         THEN MarkAllApplied(pendingActions)
                         ELSE MarkApplied(pendingActions, r.actionId)
    /\ hasChanges' = TRUE
    /\ isProcessing' = FALSE
    /\ UNCHANGED <<loading, insights, validationRules>>

\* a catch block that marks the action applied although the call failed
CleanRejectedEffect_MarksApplied(r) ==
    /\ isProcessing' = FALSE
    /\ pendingActions' = MarkApplied(pendingActions, r.actionId)
    /\ UNCHANGED <<loading, insights, validationRules, previewData, hasChanges>>

\* a clean handler without its finally block
CleanRejectedEffect_KeepsBusy(r) ==
    /\ UNCHANGED <<loading, pendingActions, insights, validationRules,
                   isProcessing, previewData, hasChanges>>

\* handleApplyAction / handleSmartClean: catch and finally
CleanRejectedEffect(r) ==
    /\ isProcessing' = FALSE
    /\ UNCHANGED <<loading, pendingActions, insights, validationRules,
                   previewData, hasChanges>>

\* a query handler whose catch block records no error
QueryRejectedEffect_SwallowsError(r) ==
    playground' = [playground EXCEPT !.loading = FALSE]

\* the query handler's catch and finally
QueryRejectedEffect(r) ==
    playground' = [playground EXCEPT !.error = "failed", !.loading = FALSE]

\* callWithRetry: fn() threw in attempt i and i < maxRetries - 1: setTimeout
CallRetry(k) ==
  \E reply \in RepliesFor(reqs[k]) :
    /\ k \in 1..Len(reqs)
    /\ reqs[k].phase = "calling"
    /\ \E ids \in IdChoices(reqs[k], reply) :
         LET r == reqs[k]
             out == FnOutcome(r, reply, ids)
             d == RetryDecision(r.i, out.err)
         IN /\ out.threw
            /\ d.retry
            /\ reqs' = [reqs EXCEPT ![k] = [r EXCEPT !.phase = "sleeping",
                                                     !.delays = Append(@, d.delay)]]
            /\ last' = Event("retry", r, reply, out)
    /\ UNCHANGED <<view, activeDataset, usage, pendingLoad, clock>>
    /\ UNCHANGED cleanVars
    /\ UNCHANGED <<playground, rt, ing>>

\* the timer of callWithRetry fires: continue, i++, next attempt
TimerFires(k) ==
    /\ k \in 1..Len(reqs)
    /\ reqs[k].phase = "sleeping"
    /\ reqs[k].i + 1 < maxRetries
    /\ reqs' = [reqs EXCEPT ![k] = [@ EXCEPT !.phase = "calling", !.i = @ + 1]]
    /\ last' = Event("wake", reqs[k], NoReply, Returned(<<>>))
    /\ UNCHANGED <<view, activeDataset, usage, pendingLoad, clock>>
    /\ UNCHANGED cleanVars
    /\ UNCHANGED <<playground, rt, ing>>

\* callWithRetry: fn() threw in the last attempt: throw error; the handler's
\* catch and finally run
CallRejected(k) ==
  \E reply \in RepliesFor(reqs[k]) :
    /\ k \in 1..Len(reqs)
    /\ reqs[k].phase = "calling"
    /\ \E ids \in IdChoices(reqs[k], reply) :
         LET r == reqs[k]
             out == FnOutcome(r, reply, ids)
             d == RetryDecision(r.i, out.err)
         IN /\ out.threw
            /\ ~d.retry
            /\ IF IsQuery(r) \/ IsChart(r)
               THEN QueryRejectedEffect(r) /\ UNCHANGED cleanVars
               ELSE /\ IF r.kind = "audit" THEN AuditRejectedEffect(r)
                                           ELSE CleanRejectedEffect(r)
                    /\ playground' = playground
            /\ reqs' = RemoveAt(reqs, k)
            /\ last' = Event("rejected", r, reply, out)
    /\ UNCHANGED <<view, activeDataset, usage, pendingLoad, clock>>
    /\ UNCHANGED <<rt, ing>>

\* auditDataset resolved: runAudit sets the queue and the insights and goes on
\* to await suggestValidationRules
AuditResolved(k) ==
  \E reply \in RepliesFor(reqs[k]) :
    /\ k \in 1..Len(reqs)
    /\ reqs[k].kind = "audit"
    /\ reqs[k].phase = "calling"
    /\ \E ids \in IdChoices(reqs[k], reply) :
         LET r == reqs[k]
             out == FnOutcome(r, reply, ids)
         IN /\ ~out.threw
            /\ AuditResolvedEffect(r, out.value)
            /\ reqs' = [reqs EXCEPT ![k] = [r EXCEPT !.phase = "rules"]]
            /\ last' = Event("resolved", r, reply, out)
    /\ UNCHANGED <<view, activeDataset, usage, pendingLoad, clock>>
    /\ UNCHANGED <<playground, rt, ing>>

\* suggestValidationRules returned or threw: the end of runAudit
RulesDone(k) ==
  \E reply \in ThrowReplies \cup TextReplies(RuleValues) :
    /\ k \in 1..Len(reqs)
    /\ reqs[k].phase = "rules"
    /\ LET r == reqs[k]
           out == RulesFn(reply)
       IN /\ IF out.threw THEN AuditRejectedEffect(r) ELSE RulesResolvedEffect(r, out.value)
          /\ reqs' = RemoveAt(reqs, k)
          /\ last' = Event(IF out.threw THEN "rulesRejected" ELSE "rulesResolved", r, reply, out)
    /\ UNCHANGED <<view, activeDataset, usage, pendingLoad, clock>>
    /\ UNCHANGED <<playground, rt, ing>>

\* a clean handler that writes the cleaned rows into the dataset prop as well
CleanResolved_WritesDataset(k) ==
  \E reply \in RepliesFor(reqs[k]) :
    /\ k \in 1..Len(reqs)
    /\ IsClean(reqs[k])
    /\ reqs[k].phase = "calling"
    /\ LET r == reqs[k]
           out == FnOutcome(r, reply, <<>>)
       IN /\ ~out.threw
          /\ CleanResolvedEffect(r, out.value)
          /\ activeDataset' = [activeDataset EXCEPT !.data = out.value]
          /\ reqs' = RemoveAt(reqs, k)
          /\ last' = Event("resolved", r, reply, out)
    /\ UNCHANGED <<view, usage, pendingLoad, clock>>
    /\ UNCHANGED <<playground, rt, ing>>

\* autoCleanDataset resolved: the end of handleApplyAction / handleSmartClean
CleanResolved(k) ==
  \E reply \in RepliesFor(reqs[k]) :
    /\ k \in 1..Len(reqs)
    /\ IsClean(reqs[k])
    /\ reqs[k].phase = "calling"
    /\ LET r == reqs[k]
           out == FnOutcome(r, reply, <<>>)
       IN /\ ~out.threw
          /\ CleanResolvedEffect(r, out.value)
          /\ reqs' = RemoveAt(reqs, k)
          /\ last' = Event("resolved", r, reply, out)
    /\ UNCHANGED <<view, activeDataset, usage, pendingLoad, clock>>
    /\ UNCHANGED <<playground, rt, ing>>

\* the rows the call a handler is waiting for has put into its prompt;
\* suggestValidationRules sends the headers and no row
Sent(r) ==
    IF r.kind = "audit" THEN (IF r.phase = "rules" THEN <<>> ELSE AuditSample(r.data))
    ELSE IF IsQuery(r) THEN QuerySample(r.data)
    ELSE IF IsChart(r) THEN ChartSample(r.data)
    ELSE DataToClean(r.data)

\* ------------------------------------------------- PlaygroundView: query
\* the form's submit handler from setLoading(true) to its first await, for the
\* handler kind "execute" (part_004) or "handleFetch" (PlaygroundView.tsx); a
\* query text is present. The sample is cut from the dataset inside the
\* service function.
SubmitQuery(kind) ==
    /\ view = "playground"
    /\ CanLaunch
    /\ playground' = [playground EXCEPT !.loading = TRUE, !.error = "null",
                                        !.chartConfig = NoChart]
    /\ usage' = TrackAIUsage(usage)
    /\ LET r == NewReq(kind, activeDataset, activeDataset.data, <<"", 0>>)
       IN /\ reqs' = Append(reqs, r)
          /\ last' = Launch(r)
    /\ UNCHANGED <<view, activeDataset, pendingLoad, clock>>
    /\ UNCHANGED cleanVars
    /\ UNCHANGED <<rt, ing>>

\* part_004: if (loading) return
Execute ==
    /\ ~playground.loading
    /\ SubmitQuery("execute")

\* PlaygroundView.tsx: if (!currentQuery.trim() || loading) return
HandleFetch ==
    /\ ~playground.loading
    /\ SubmitQuery("handleFetch")

\* the query resolved: setResults(data), then either the call of
\* suggestChartForResults or the finally block
QueryResolved(k) ==
  \E reply \in RepliesFor(reqs[k]) :
    /\ k \in 1..Len(reqs)
    /\ IsQuery(reqs[k])
    /\ reqs[k].phase = "calling"
    /\ LET r == reqs[k]
           out == FnOutcome(r, reply, <<>>)
           data == out.value
       IN /\ ~out.threw
          /\ IF WantsChart(r.kind, data) /\ SuggestChartCalls(data)
             THEN /\ playground' = [playground EXCEPT !.results = data]
                  /\ reqs' = [reqs EXCEPT ![k] =
                                 [r EXCEPT !.kind = IF r.kind = "execute"
                                                    THEN "executeChart"
                                                    ELSE "handleFetchChart",
                                           !.data = data, !.i = 0, !.delays = <<>>]]
             ELSE /\ playground' = [playground EXCEPT !.results = data,
                                                      !.loading = FALSE]
                  /\ reqs' = RemoveAt(reqs, k)
          /\ last' = Event("resolved", r, reply, out)
    /\ UNCHANGED <<view, activeDataset, usage, pendingLoad, clock>>
    /\ UNCHANGED cleanVars
    /\ UNCHANGED <<rt, ing>>

\* suggestChartForResults resolved: if (suggestion) setChartConfig, and finally
ChartResolved(k) ==
  \E reply \in RepliesFor(reqs[k]) :
    /\ k \in 1..Len(reqs)
    /\ IsChart(reqs[k])
    /\ reqs[k].phase = "calling"
    /\ LET r == reqs[k]
           out == FnOutcome(r, reply, <<>>)
       IN /\ ~out.threw
          /\ playground' = [playground EXCEPT
                               !.chartConfig = IF out.value # NoChart THEN out.value ELSE @,
                               !.loading = FALSE]
          /\ reqs' = RemoveAt(reqs, k)
          /\ last' = Event("resolved", r, reply, out)
    /\ UNCHANGED <<view, activeDataset, usage, pendingLoad, clock>>
    /\ UNCHANGED cleanVars
    /\ UNCHANGED <<rt, ing>>

Next ==
    \/ \E src \in Sources : StartLoad(src)
    \/ \E to \in {"upload", "clean", "playground"} : Navigate(to)
    \/ \E src \in Sources : HandleDataLoaded(src)
    \/ \E k \in DOMAIN pendingActions : HandleApplyAction(k)
    \/ HandleSmartClean
    \/ HandleCommit
    \/ \E k \in DOMAIN reqs : CallRetry(k)
    \/ \E k \in DOMAIN reqs : TimerFires(k)
    \/ \E k \in DOMAIN reqs : CallRejected(k)
    \/ \E k \in DOMAIN reqs : AuditResolved(k)
    \/ \E k \in DOMAIN reqs : RulesDone(k)
    \/ \E k \in DOMAIN reqs : CleanResolved(k)
    \/ Execute
    \/ HandleFetch
    \/ \E k \in DOMAIN reqs : QueryResolved(k)
    \/ \E k \in DOMAIN reqs : ChartResolved(k)

Spec == Init /\ [][Next]_vars

\* every call of the service eventually returns or throws, every timer of
\* callWithRetry eventually fires, and the continuation of the handler runs:
\* some in-flight handler takes its next step
HandlerStep ==
    \E k \in DOMAIN reqs :
        \/ CallRetry(k)
        \/ TimerFires(k)
        \/ CallRejected(k)
        \/ AuditResolved(k)
        \/ RulesDone(k)
        \/ CleanResolved(k)
        \/ QueryResolved(k)
        \/ ChartResolved(k)

\* the program with the sources of at most rowLimit rows only: termination
\* does not depend on the rows, and the states stay small
ShortSources == { src \in Sources : Len(src.data) <= rowLimit }
NextFair ==
    \/ \E src \in ShortSources : StartLoad(src)
    \/ \E to \in {"upload", "clean", "playground"} : Navigate(to)
    \/ \E src \in ShortSources : HandleDataLoaded(src)
    \/ \E k \in DOMAIN pendingActions : HandleApplyAction(k)
    \/ HandleSmartClean
    \/ HandleCommit
    \/ \E k \in DOMAIN reqs : CallRetry(k)
    \/ \E k \in DOMAIN reqs : TimerFires(k)
    \/ \E k \in DOMAIN reqs : CallRejected(k)
    \/ \E k \in DOMAIN reqs : AuditResolved(k)
    \/ \E k \in DOMAIN reqs : RulesDone(k)
    \/ \E k \in DOMAIN reqs : CleanResolved(k)
    \/ Execute
    \/ HandleFetch
    \/ \E k \in DOMAIN reqs : QueryResolved(k)
    \/ \E k \in DOMAIN reqs : ChartResolved(k)

SpecFair == Init /\ [][NextFair]_vars /\ WF_vars(HandlerStep)

\* --------------------------------------------------- handleFile on its own
\* The lines the files are made of: a header line, rows with numbers, with
\* text, with an empty cell and with a missing cell, a blank line, a line
\* with a quoted comma and padded cells, and a line that repeats a header.
LinePool ==
    { <<"a", ",", "b">>,
      <<"1", ",", "x">>,
      <<"2", ",", "y">>,
      <<",", "b">>,
      <<"2">>,
      <<" ">>,
      <<"\"", "x", ",", "y", "\"", ",", " ", "1", " ">>,
      <<"a", ",", "a">> }

RECURSIVE JoinLines(_)
JoinLines(lines) ==
    IF Len(lines) = 0 THEN <<>>
    ELSE IF Len(lines) = 1 THEN lines[1]
    ELSE lines[1] \o <<"\n">> \o JoinLines(Tail(lines))

Texts == { JoinLines(lines) : lines \in UNION { [1..n -> LinePool] : n \in 0..MaxLines } }
IngestName == "F.csv"

\* handleFile(file) has called reader.readAsText(file)
InitIngest ==
    /\ AppInit
    /\ playground = NoPlayground
    /\ rt = RtIdle
    /\ \E text \in Texts : ing = [IngIdle EXCEPT !.phase = "reading", !.text = text]

\* reader.onload: parseCSV, and onDataLoaded = handleDataLoaded if a row was parsed
ReaderOnload ==
    /\ ing.phase = "reading"
    /\ LET out == ParseCSV(ing.text)
       IN /\ ing' = [ing EXCEPT !.phase = "done", !.parsed = out]
          /\ IF ~out.threw /\ Len(out.value) > 0
             THEN /\ DataLoaded(out.value, IngestName)
                  /\ UNCHANGED pendingLoad
             ELSE /\ last' = Plain("onload")
                  /\ UNCHANGED <<view, activeDataset, usage, pendingLoad, reqs, clock,
                                 playground, rt>>
                  /\ UNCHANGED cleanVars

NextIngest == ReaderOnload

SpecIngest == InitIngest /\ [][NextIngest]_vars

\* ------------------------------------------------ callWithRetry on its own
\* callWithRetry(fn, n, d) for a function fn that throws or returns at each
\* call: rt.i is the loop variable, rt.attempts counts the calls of fn,
\* rt.errs the errors it threw, rt.delays the setTimeout delays waited,
\* rt.thrown the error callWithRetry rejects with.
RtErrors == ErrorKinds \cup {"SyntaxError"}
RtDelays == {initialDelay, initialDelay \div 4}

InitRetry ==
    /\ AppInit
    /\ playground = NoPlayground
    /\ ing = IngIdle
    /\ \E n \in 1..MaxRetriesArg : \E d \in RtDelays :
         rt = [RtIdle EXCEPT !.n = n, !.d = d, !.phase = "calling"]

\* return await fn()
RtAttemptReturns ==
    /\ rt.phase = "calling"
    /\ rt' = [rt EXCEPT !.phase = "returned", !.attempts = @ + 1]
    /\ UNCHANGED <<view, activeDataset, usage, pendingLoad, reqs, clock, last, playground, ing>>
    /\ UNCHANGED cleanVars

\* fn() threw: lastError = error, then the catch block
RtAttemptFails(err) ==
    /\ rt.phase = "calling"
    /\ LET dec == CallWithRetryCatch(rt.i, err, rt.n, rt.d)
       IN rt' = IF dec.retry
                THEN [rt EXCEPT !.phase = "sleeping", !.attempts = @ + 1,
                                !.errs = Append(@, err),
                                !.delays = Append(@, dec.delay)]
                ELSE [rt EXCEPT !.phase = "threw", !.attempts = @ + 1,
                                !.errs = Append(@, err), !.thrown = err]
    /\ UNCHANGED <<view, activeDataset, usage, pendingLoad, reqs, clock, last, playground, ing>>
    /\ UNCHANGED cleanVars

\* the timer fires: continue, i++, and the loop test; after the loop throw lastError
RtTimerFires ==
    /\ rt.phase = "sleeping"
    /\ rt' = IF rt.i + 1 < rt.n
             THEN [rt EXCEPT !.phase = "calling", !.i = @ + 1]
             ELSE [rt EXCEPT !.phase = "threw", !.i = @ + 1,
                             !.thrown = rt.errs[Len(rt.errs)]]
    /\ UNCHANGED <<view, activeDataset, usage, pendingLoad, reqs, clock, last, playground, ing>>
    /\ UNCHANGED cleanVars

NextRetry ==
    \/ RtAttemptReturns
    \/ \E err \in RtErrors : RtAttemptFails(err)
    \/ RtTimerFires

SpecRetry == InitRetry /\ [][NextRetry]_vars

\* ================================================================ claims
\* what the Issues panel renders (CleanView.tsx 158-182)
AuditPanel ==
    IF loading THEN "skeleton"
    ELSE IF Len(pendingActions) = 0 THEN "Perfect Condition"
    ELSE "actions"

\* the step taken last ended a call of callWithRetry for handler kind(s) ks
Resolved(ks) == last.op = "resolved" /\ last.kind \in ks
Rejected(ks) == last.op = "rejected" /\ last.kind \in ks
CleanKinds == {"apply", "smart"}
\* the dataset the handler was started for is no longer the active one
Stale(e) == e.dsName # activeDataset.name

\* C1: an audit response that arrives after the active dataset was replaced is
\* discarded: the step that delivers it leaves the action queue and the
\* insights as they were.
C1_StaleAuditDiscarded ==
    [][(last'.op = "resolved" /\ last'.kind = "audit" /\ Stale(last'))
         => (pendingActions' = pendingActions /\ insights' = insights)]_vars

\* C2: a clean response that arrives after the active dataset was replaced is
\* discarded: the step that delivers it leaves the working copy and the
\* uncommitted-change flag as they were.
C2_StaleCleanDiscarded ==
    [][(last'.op = "resolved" /\ last'.kind \in CleanKinds /\ Stale(last'))
         => (previewData' = previewData /\ hasChanges' = hasChanges)]_vars

\* C3 as stated: after a successful clean of a working copy of more than
\* rowLimit rows, every row that was at an index >= rowLimit when the call was
\* made is at that same index of the new working copy.
C3_TailKeepsIndex ==
    (Resolved(CleanKinds) /\ last.rows > rowLimit)
      => \A j \in 1..Len(last.tail) :
            /\ rowLimit + j <= Len(previewData)
            /\ previewData[rowLimit + j] = last.tail[j]

\* C3 as amended: the row that was at index rowLimit + j is, unchanged, at
\* index n + j of the new working copy, n being the number of rows the service
\* returned; it keeps its index exactly when n = rowLimit.
C3_TailFollowsReturnedRows ==
    (Resolved(CleanKinds) /\ last.rows > rowLimit)
      => /\ Len(previewData) = last.returned + Len(last.tail)
         /\ \A j \in 1..Len(last.tail) : previewData[last.returned + j] = last.tail[j]

\* a clean of the large dataset for which the service returned one row less
C3_Witness ==
    /\ Resolved(CleanKinds)
    /\ last.rows > rowLimit
    /\ last.returned = rowLimit - 1
    /\ previewData[rowLimit + 1] # last.tail[1]

\* C4: after a successful clean of a working copy of R > rowLimit rows, the
\* R - rowLimit rows beyond the window are the last rows of the new working
\* copy, unmodified and in their order.
C4_TailPreserved ==
    (Resolved(CleanKinds) /\ last.rows > rowLimit)
      => /\ Len(last.tail) = last.rows - rowLimit
         /\ Len(previewData) >= Len(last.tail)
         /\ SubSeq(previewData, Len(previewData) - Len(last.tail) + 1, Len(previewData))
              = last.tail

\* a smart clean of the large dataset has replaced the working copy
C4_Witness ==
    /\ Resolved({"smart"})
    /\ last.rows > rowLimit
    /\ last.returned = rowLimit
    /\ previewData # activeDataset.data

\* C5: at most one clean operation is in flight at any time.
C5_OneCleanInFlight ==
    Cardinality({k \in DOMAIN reqs : IsClean(reqs[k])}) <= 1

\* C6: the step in which a clean call ends in a terminal error leaves the
\* working copy, the uncommitted-change flag and every action's status as
\* they were.
C6_FailedCleanChangesNothing ==
    [][(last'.op = "rejected" /\ last'.kind \in CleanKinds)
         => /\ previewData' = previewData
            /\ hasChanges' = hasChanges
            /\ pendingActions' = pendingActions]_vars

\* an applyAction call has failed and its action is still pending
C6_Witness ==
    /\ Rejected({"apply"})
    /\ ~isProcessing
    /\ \E k \in DOMAIN pendingActions :
          pendingActions[k].id = last.actionId /\ pendingActions[k].status = "pending"

\* C7: after the audit call ended in a terminal error the view is not loading
\* and the action queue and the insights are empty.
C7_FailedAuditLeavesEmptyQueue ==
    Rejected({"audit"})
      => (~loading /\ pendingActions = <<>> /\ insights = <<>>)

\* C8: the view state left by a failed audit is never the view state that a
\* successful audit with no actions, no insights and no rules leaves: nothing
\* loading, empty queue, empty insights, no rules, "Perfect Condition" shown.
EmptyAuditView == <<FALSE, <<>>, <<>>, <<>>, "Perfect Condition">>
C8_FailureDistinctFromEmptyAudit ==
    Rejected({"audit"})
      => <<loading, pendingActions, insights, validationRules, AuditPanel>> # EmptyAuditView

\* C9: an audit response whose text is missing or is not JSON makes
\* auditDataset return the empty default at once: no retry, no error, empty
\* queue and insights.
C9_UnparsableAuditIsEmptyDefault ==
    (/\ last.kind = "audit"
     /\ last.op \in {"retry", "rejected", "resolved"}
     /\ last.reply.type = "text"
     /\ last.reply.text \in {"missing", "nonjson"})
      => (last.op = "resolved" /\ pendingActions = <<>> /\ insights = <<>>)

\* C10: callWithRetry schedules a retry only for a retryable failure in an
\* attempt below maxRetries, and a non-retryable failure ends the call in its
\* first attempt with no delay waited.
Retryable == {"rateLimit"}
NonRetryable == {"auth"}
C10_RetryOnlyRetryable ==
    /\ last.op = "retry" => (last.err \in Retryable /\ last.i + 1 < maxRetries)
    /\ (last.op \in {"retry", "rejected"} /\ last.err \in NonRetryable)
         => (last.op = "rejected" /\ last.i = 0 /\ last.delays = <<>>)

\* the delays callWithRetry(fn, n, d) waits after k failed attempts: d * 2^i
\* after the failure of attempt i, counted from 0
Backoff(d, k) == [j \in 1..k |-> d * Pow2(j - 1)]

\* C11: a run of callWithRetry that returns after k failed attempts has k < n,
\* has called the function exactly k + 1 times, and has waited d * 2^i after the
\* i-th failure (counted from 0) and not after the success.
C11_SuccessAfterFailures ==
    rt.phase = "returned"
        => /\ Len(rt.errs) < rt.n
           /\ rt.attempts = Len(rt.errs) + 1
           /\ rt.delays = Backoff(rt.d, Len(rt.errs))
\* maxRetries = 4 and three failures: four attempts, delays d, 2d, 4d
C11_Witness ==
    /\ rt.phase = "returned"
    /\ rt.n = 4
    /\ Len(rt.errs) = 3
    /\ rt.attempts = 4
    /\ rt.delays = <<rt.d, 2 * rt.d, 4 * rt.d>>

\* C12: a run of callWithRetry that rejects has called the function exactly n
\* times, every call failed, the error it rejects with is the error of the
\* last attempt, and it waited after each failure but the last; a run that
\* made n failing attempts never returns a value.
C12_ExhaustedSurfacesLastError ==
    /\ rt.phase = "threw"
          => /\ rt.attempts = rt.n
             /\ Len(rt.errs) = rt.n
             /\ rt.thrown = rt.errs[rt.n]
             /\ rt.delays = Backoff(rt.d, rt.n - 1)
    /\ Len(rt.errs) = rt.n => rt.phase = "threw"
\* three attempts failed with different errors; the last one is surfaced
C12_Witness ==
    /\ rt.phase = "threw"
    /\ rt.n = 3
    /\ rt.errs = <<"rateLimit", "auth", "SyntaxError">>
    /\ rt.thrown = "SyntaxError"
    /\ Len(rt.delays) = 2

\* the column statistics the profiler of handleDataLoaded yields for a dataset's
\* records
ProfileOf(ds) == [k \in 1..Len(ds.headers) |-> ColumnStatsOf(ds.data, ds.headers[k])]

\* C13: right after commit() the committed records are the working copy and
\* the column statistics of the committed dataset are the profiler's output
\* on the committed records.
C13_CommitRecomputesStats ==
    last.op = "commit"
        => /\ activeDataset.data = previewData
           /\ activeDataset.stats = ProfileOf(activeDataset)

\* C14 as stated: whenever commit is available (the Commit button is rendered)
\* the working copy differs from the committed records.
C14_CommitOnlyWhenDifferent ==
    (view = "clean" /\ hasChanges) => previewData # activeDataset.data

\* C14, amended: commit acts only in a state whose uncommitted-change flag is
\* set, and the flag is only ever set by the step that delivers a successful
\* clean; with no successful clean since the load or the last commit, commit
\* is unavailable.
C14_CommitOnlyWhenFlagged ==
    [][/\ last'.op = "commit" => (view = "clean" /\ hasChanges)
       /\ (hasChanges' /\ ~hasChanges) => (last'.op = "resolved" /\ last'.kind \in CleanKinds)]_vars
\* a successful clean has just made commit available
C14_Witness ==
    /\ Resolved(CleanKinds)
    /\ view = "clean"
    /\ hasChanges
    /\ clock <= MaxCommits

\* C15: right after commit() the working copy equals the committed records and
\* the uncommitted-change flag is clear; and in every state of CleanView whose
\* flag is clear (a clean pending or not) the working copy equals the
\* committed records.
C15_CleanFlagMeansEqual ==
    /\ last.op = "commit" => (~hasChanges /\ previewData = activeDataset.data)
    /\ (view = "clean" /\ ~hasChanges) => previewData = activeDataset.data
\* a commit has just stored a working copy that a clean had changed
C15_Witness ==
    /\ last.op = "commit"
    /\ ~hasChanges
    /\ previewData = activeDataset.data
    /\ \E src \in Sources : src.name = activeDataset.name /\ src.data # activeDataset.data

\* C16: the committed dataset changes only in a commit step or in the step
\* that loads a new dataset: launching or delivering an audit, an apply or a
\* smart clean, a retry and a navigation all leave it as it was.
C16_DatasetChangesOnlyByCommitOrLoad ==
    [][activeDataset' # activeDataset => last'.op \in {"commit", "dataLoaded"}]_vars
\* a clean has replaced the working copy and the committed dataset is still
\* the one that was loaded
C16_Witness ==
    /\ Resolved(CleanKinds)
    /\ previewData # activeDataset.data
    /\ \E src \in Sources : activeDataset = MkDataset(src.data, src.name)

\* the statuses of the CleanAction type, and those no step of an audit cycle leaves
ActionStatuses == {"pending", "applied", "rejected"}
TerminalStatuses == {"applied", "rejected"}
\* the step starts a new audit cycle of the queue: an audit answer replaces the
\* queue, or a CleanView instance is mounted or unmounted
NewAuditCycle ==
    \/ last'.op = "resolved" /\ last'.kind = "audit"
    \/ view # "clean"
    \/ view' # "clean"

\* C17: after every step the status of every action of the queue is pending,
\* applied or rejected, whatever status the service wrote; and within one
\* audit cycle an action that is applied or rejected stays as it is in every
\* step, the delivery of a failed clean included.
C17_StatusesValidAndTerminal ==
    [][/\ \A k \in DOMAIN pendingActions' : pendingActions'[k].status \in ActionStatuses
       /\ ~NewAuditCycle
            => \A k \in DOMAIN pendingActions :
                  pendingActions[k].status \in TerminalStatuses
                      => /\ k \in DOMAIN pendingActions'
                         /\ pendingActions'[k] = pendingActions[k]]_vars
\* a clean has just failed while an action of the queue was applied
C17_Witness ==
    /\ Rejected(CleanKinds)
    /\ \E k \in DOMAIN pendingActions : pendingActions[k].status = "applied"

\* C18: the ids of the actions of the queue are pairwise distinct, so that
\* applying an action by id selects exactly one action.
C18_ActionIdsDistinct ==
    \A j, k \in DOMAIN pendingActions :
        j # k => pendingActions[j].id # pendingActions[k].id

\* the step issues a Gateway invocation: a handler starts its first call
\* (auditDataset, autoCleanDataset), or runAudit goes on from auditDataset to
\* suggestValidationRules; a retry of callWithRetry is not a new invocation
IssuesInvocation ==
    \/ last'.op = "launch"
    \/ last'.op = "dataLoaded" /\ last'.kind = "audit"
    \/ last'.op = "resolved" /\ last'.kind = "audit"

\* C19: the AI-calls counter grows by exactly one in every step that issues a
\* Gateway invocation and is unchanged in every other step, retries included.
C19_OneCountPerInvocation ==
    [][usage'.aiQueriesUsed =
          usage.aiQueriesUsed + (IF IssuesInvocation THEN 1 ELSE 0)]_vars

\* a call of suggestChartForResults is in flight
ChartCallIssued == \E k \in DOMAIN reqs : IsChart(reqs[k])

\* C20: right after a query delivered its result, a chart-suggestion call has
\* been issued exactly if the result is non-empty and holds no more than
\* chartThreshold rows; a zero-row result issues none and leaves the chart
\* suggestion empty.
C20_ChartCallIffWithinThreshold ==
    (last.op = "resolved" /\ last.kind \in QueryKinds)
        => /\ ChartCallIssued <=> (Len(playground.results) > 0
                                   /\ Len(playground.results) <= chartThreshold)
           /\ Len(playground.results) = 0 => playground.chartConfig = NoChart

\* C21: a query that has just delivered zero rows leaves the result set empty
\* and no error recorded, and a query one of whose calls has just failed
\* terminally leaves an error recorded: the error field tells the two apart.
C21_EmptyResultIsNotAnError ==
    /\ (last.op = "resolved" /\ last.kind \in QueryKinds /\ Len(playground.results) = 0)
          => (playground.error = "null" /\ ~playground.loading)
    /\ (last.op = "rejected" /\ last.kind \in QueryKinds \cup ChartKinds)
          => (playground.error # "null" /\ ~playground.loading)
\* the query call has failed terminally while the result set is empty
C21_Witness ==
    /\ last.op = "rejected"
    /\ last.kind \in QueryKinds
    /\ playground.results = <<>>
    /\ playground.error = "failed"

\* C22: under SpecFair every started handler ends (no handler stays in
\* flight for ever, whatever the service answers), and each busy flag that is
\* set is cleared again: loading and isProcessing of a mounted CleanView,
\* loading of PlaygroundView.
C22_OperationsTerminate ==
    /\ (Len(reqs) > 0) ~> (Len(reqs) = 0)
    /\ (view = "clean" /\ loading) ~> (view # "clean" \/ ~loading)
    /\ isProcessing ~> ~isProcessing
    /\ playground.loading ~> ~playground.loading
\* a clean has failed in both attempts and its handler has cleared isProcessing
C22_Witness ==
    /\ Rejected(CleanKinds)
    /\ last.i = maxRetries - 1
    /\ ~isProcessing
    /\ Len(reqs) = 0

\* the handlers whose call carries rows of the dataset or of the working copy
SendsRows(r) == (r.kind = "audit" /\ r.phase # "rules") \/ IsClean(r) \/ IsQuery(r)
\* the sample size of each operation, as the source states it
SampleSizeOf(r) ==
    IF r.kind = "audit" THEN 30 ELSE IF IsQuery(r) THEN 50 ELSE 200

\* C23 as stated: one fixed sample size for the orchestrator and the query
\* executor: any two calls in flight over equally many rows carry equally
\* many rows.
C23_OneSampleSize ==
    \A j, k \in DOMAIN reqs :
        (SendsRows(reqs[j]) /\ SendsRows(reqs[k]) /\ Len(reqs[j].data) = Len(reqs[k].data))
            => Len(Sent(reqs[j])) = Len(Sent(reqs[k]))

\* C23, amended: every call of an audit, a clean or a query carries a prefix of
\* the rows its handler works on (the dataset for audit and query, the working
\* copy for clean), in order, of length min(row count, sample size of the
\* operation: 30 for audit, 200 for clean, 50 for query); no row beyond that
\* bound is sent.
C23_PrefixPerOperation ==
    /\ \A k \in DOMAIN reqs :
          SendsRows(reqs[k])
            => LET rows == Sent(reqs[k])
                   data == reqs[k].data
               IN /\ Len(rows) = Min(Len(data), SampleSizeOf(reqs[k]))
                  /\ \A i \in 1..Len(rows) : rows[i] = data[i]
    /\ last.op = "launch"
          => reqs[Len(reqs)].data = IF IsClean(reqs[Len(reqs)]) THEN previewData
                                    ELSE activeDataset.data
\* a clean over more than rowLimit rows is in flight and carries rowLimit rows
C23_Witness ==
    \E k \in DOMAIN reqs :
        /\ IsClean(reqs[k])
        /\ Len(reqs[k].data) > rowLimit
        /\ Len(Sent(reqs[k])) = rowLimit

\* the keys of a record
KeysOf(row) == DOMAIN row
\* the elements of a sequence
Range(seq) == { seq[i] : i \in DOMAIN seq }

\* C24: in every state the key set of every record of the committed dataset
\* is a subset of headers, headers has no duplicates, and the column
\* statistics have one entry per header, in header order.
C24_DatasetWellFormed ==
    activeDataset # NoDataset
        => /\ \A i \in DOMAIN activeDataset.data :
                 KeysOf(activeDataset.data[i]) \subseteq Range(activeDataset.headers)
           /\ Cardinality(Range(activeDataset.headers)) = Len(activeDataset.headers)
           /\ Len(activeDataset.stats) = Len(activeDataset.headers)
           /\ \A k \in DOMAIN activeDataset.headers :
                 activeDataset.stats[k].column = activeDataset.headers[k]

\* the non-blank lines of a text, counted on the text itself
NonBlankLines(text) ==
    LET Breaks == {0, Len(text) + 1} \cup { i \in DOMAIN text : text[i] = "\n" }
    IN Cardinality({ b \in Breaks :
          /\ b <= Len(text)
          /\ LET e == CHOOSE c \in Breaks : c > b /\ \A d \in Breaks : d > b => c <= d
             IN \E i \in (b + 1)..(e - 1) : text[i] # " " })

\* C27: reading a text without a non-blank line makes parseCSV fail with
\* MalformedInputError, and reading a text with a header line and no data row
\* makes it return no rows without an error; in both cases no dataset becomes
\* active and no usage counter changes.
C27_EmptyInputIsMalformed ==
    ing.phase = "done"
        => /\ NonBlankLines(ing.text) = 0
                 => (ing.parsed.threw /\ ing.parsed.err = "MalformedInputError")
           /\ NonBlankLines(ing.text) = 1
                 => (~ing.parsed.threw /\ ing.parsed.value = <<>>)
           /\ NonBlankLines(ing.text) <= 1
                 => (activeDataset = NoDataset /\ usage.rowsProcessed = InitRowsProcessed
                     /\ usage.connectorsCount = InitConnectorsCount
                     /\ usage.aiQueriesUsed = InitAiQueriesUsed)

\* the value a row holds for a header (undefined if the row has no such key)
ValueAt(row, header) ==
    IF header \in DOMAIN row THEN row[header] ELSE [t |-> "undefined", n |-> 0, s |-> ""]
\* a value is missing exactly when it is null, undefined or the empty string
IsMissing(v) == v.t = "null" \/ v.t = "undefined" \/ (v.t = "string" /\ v.s = "")
\* the rows of the dataset whose value for the header is missing / present
MissingRows(ds, header) == { i \in DOMAIN ds.data : IsMissing(ValueAt(ds.data[i], header)) }
PresentRows(ds, header) == DOMAIN ds.data \ MissingRows(ds, header)
\* a file has been read and its rows have become the active dataset
Ingested == ing.phase = "done" /\ activeDataset # NoDataset

\* C25: after a file with a header line and at least one data row is read the
\* dataset has exactly one ColumnStats per header, in header order, and for
\* every column missingValues is the number of rows whose value is null,
\* undefined or the empty string (so that it and the number of non-missing
\* values add up to the row count) and uniqueValues is the number of distinct
\* non-missing values.
C25_ProfilerCounts ==
    Ingested
        => /\ activeDataset.data = ing.parsed.value
           /\ Len(activeDataset.stats) = Len(activeDataset.headers)
           /\ Range(activeDataset.headers) = DOMAIN activeDataset.data[1]
           /\ Cardinality(Range(activeDataset.headers)) = Len(activeDataset.headers)
           /\ \A k \in DOMAIN activeDataset.headers :
                 LET h == activeDataset.headers[k]
                     st == activeDataset.stats[k]
                 IN /\ st.column = h
                    /\ st.missingValues = Cardinality(MissingRows(activeDataset, h))
                    /\ st.missingValues + Cardinality(PresentRows(activeDataset, h))
                          = Len(activeDataset.data)
                    /\ st.uniqueValues =
                          Cardinality({ ValueAt(activeDataset.data[i], h) :
                                          i \in PresentRows(activeDataset, h) })
\* the file a,b / 1,x / 2,y / ,b: column a has one missing value and the two
\* values 1 and 2 and is numeric, column b has three values and is categorical
C25_Witness ==
    /\ Ingested
    /\ ing.text = JoinLines(<< <<"a", ",", "b">>, <<"1", ",", "x">>,
                               <<"2", ",", "y">>, <<",", "b">> >>)
    /\ activeDataset.headers = <<"a", "b">>
    /\ activeDataset.stats =
          << [column |-> "a", type |-> "numeric", uniqueValues |-> 2, missingValues |-> 1],
             [column |-> "b", type |-> "categorical", uniqueValues |-> 3, missingValues |-> 0] >>

\* the strings that parse fully as a number, among those of the texts
Numerals == { Str(cs) : cs \in UNION { [1..n -> Digits] : n \in 1..2 } }
ParsesFully(v) == v.t = "number" \/ (v.t = "string" /\ v.s \in Numerals)

C29_NoPendingAfterApplyAll ==
    [][(/\ last.op = "resolved" /\ last.kind = "smart"
        /\ last'.op = "resolved" /\ last'.kind = "audit"
        /\ last'.dsName = last.dsName)
         => \A k \in DOMAIN pendingActions' : pendingActions'[k].status # "pending"]_vars

\* C30: the step that delivers a clean answer without a payload leaves the
\* working copy and the statuses of the queue as they were.
C30_EmptyPayloadChangesNothing ==
    [][(/\ last'.op = "resolved" /\ last'.kind \in CleanKinds
        /\ last'.reply.type = "text" /\ last'.reply.text = "missing")
         => (previewData' = previewData /\ pendingActions' = pendingActions)]_vars

====
